---- MODULE Spec2Model ----
(***************************************************************************)
(* Streaming ingestion and anomaly scoring of the energy dashboard:        *)
(* detectAnomaly (frontend/src/utils/anomalyDetection.ts) and the          *)
(* handleMessage callback of EnergyProvider                                *)
(* (frontend/src/context/EnergyContext.tsx).                               *)
(*                                                                         *)
(* Numbers.  energyKw is a JavaScript double.  The model draws energyKw    *)
(* from the non-negative integers (whole kW).  Every entry of ZONE_RANGES  *)
(* is a multiple of 10, so max*1.5, min*0.5, min*0.3 and max*2 are whole   *)
(* numbers that a double holds exactly, and for whole e and p the          *)
(* correctly rounded quotient (e-p)/p compares with the literals 0.3 and   *)
(* 0.5 exactly as the rational (e-p)/p compares with 3/10 and 1/2.  A      *)
(* division by zero is kept: x/0 is Infinity for x # 0 and NaN for x = 0.  *)
(*                                                                         *)
(* A reading carries temperature and equipmentCount as well; neither       *)
(* detectAnomaly nor handleMessage reads them and they are left out.       *)
(***************************************************************************)
EXTENDS Integers, Sequences, FiniteSets, TLC

\* ------------------------------------------------------------------ bounds
\* readings ingested in one run of Spec
MaxIngest == 3

\* timestamps are 1..MaxTimestamp; the stream may repeat or reorder them
MaxTimestamp == 2

\* energyKw of the detector's arguments in SpecDetect ranges over 0..MaxEnergyKw
MaxEnergyKw == 85

\* readings replayed in one run of SpecReplay
MaxReplay == 1730

\* readings of one burst of SpecReplay
BurstLen == 100

\* --------------------------------------------------------- program constants
MAX_READINGS_PER_ZONE == 1500

MAX_ANOMALIES == 50

ZONE_RANGES ==
    ( "assembly-1"      :> [min |-> 220, max |-> 280] ) @@
    ( "paint-shop"      :> [min |-> 150, max |-> 200] ) @@
    ( "stamping-press"  :> [min |-> 300, max |-> 400] ) @@
    ( "quality-control" :> [min |-> 50,  max |-> 80 ] ) @@
    ( "warehouse"       :> [min |-> 20,  max |-> 40 ] )

\* ------------------------------------------------------- JavaScript values
\* null, undefined; Pending marks a call that has not returned, NoCall the
\* absence of any call so far
Null == [kind |-> "null"]

Undefined == [kind |-> "undefined"]

Pending == [kind |-> "pending"]

NoCall == [kind |-> "nocall"]

\* ZONE_RANGES is an object literal: a key that is not an own property is
\* looked up on Object.prototype.  These are names Object.prototype defines.
ObjectPrototypeKeys ==
    {"constructor", "toString", "valueOf", "hasOwnProperty", "__proto__"}

\* ZONE_RANGES[zoneId]: the registered range, a member of Object.prototype
\* (truthy, with neither min nor max), or undefined
ZoneRangeLookup(zoneId) ==
    IF zoneId \in DOMAIN ZONE_RANGES
    THEN [own |-> TRUE, min |-> ZONE_RANGES[zoneId].min,
                        max |-> ZONE_RANGES[zoneId].max]
    ELSE IF zoneId \in ObjectPrototypeKeys
         THEN [own |-> FALSE, min |-> 0, max |-> 0]
         ELSE Undefined

Abs(x) == IF x < 0 THEN -x ELSE x

\* x * 1.5 and x * 0.5 for the entries of ZONE_RANGES (multiples of 10)
Times15(x) == (x * 15) \div 10

Times05(x) == (x * 5) \div 10

\* slip: <= where the code has <
LessThanTimes03_OrEqual(energyKw, min) == energyKw * 10 <= min * 3

\* energyKw < min * 0.3, over the integers
LessThanTimes03(energyKw, min) == energyKw * 10 < min * 3

\* Math.abs((energyKw - previous) / previous) as the fraction num/den;
\* den = 0 is Infinity when num > 0 and NaN when num = 0
PercentChange(energyKw, previous) ==
    [num |-> Abs(energyKw - previous), den |-> Abs(previous)]

\* slip: < where the code has <=
PercentLeq_Strict(pc, a) ==
    IF pc.den = 0 THEN FALSE ELSE pc.num * 10 < a * pc.den

\* percentChange <= a/10: false for Infinity and for NaN
PercentLeq(pc, a) ==
    IF pc.den = 0 THEN FALSE ELSE pc.num * 10 <= a * pc.den

\* percentChange > a/10: true for Infinity, false for NaN
PercentGt(pc, a) ==
    IF pc.den = 0 THEN pc.num > 0 ELSE pc.num * 10 > a * pc.den

\* slip: >= where the code has >
calculateSeverity_AtLeast(value, threshold, criticalMultiplier) ==
    IF value >= threshold * criticalMultiplier THEN "critical" ELSE "warning"

calculateSeverity(value, threshold, criticalMultiplier) ==
    IF value > threshold * criticalMultiplier THEN "critical" ELSE "warning"

\* the template string `${zoneId}-${timestamp}` of two components
AnomalyId(zoneId, timestamp) == <<zoneId, timestamp>>

\* slip: value is filled from the threshold
createAnomaly_ValueFromThreshold(reading, type, threshold, severity) ==
    [ id        |-> AnomalyId(reading.zoneId, reading.timestamp),
      type      |-> type,
      zoneId    |-> reading.zoneId,
      zoneName  |-> reading.zoneName,
      timestamp |-> reading.timestamp,
      value     |-> threshold,
      threshold |-> threshold,
      severity  |-> severity ]

createAnomaly(reading, type, threshold, severity) ==
    [ id        |-> AnomalyId(reading.zoneId, reading.timestamp),
      type      |-> type,
      zoneId    |-> reading.zoneId,
      zoneName  |-> reading.zoneName,
      timestamp |-> reading.timestamp,
      value     |-> reading.energyKw,
      threshold |-> threshold,
      severity  |-> severity ]

\* lines 84-100: the pattern rule
PatternCheck(reading, previousReading) ==
    IF previousReading = Undefined THEN Null
    ELSE IF previousReading.zoneId # reading.zoneId THEN Null
    ELSE LET percentChange ==
                 PercentChange(reading.energyKw, previousReading.energyKw)
         IN  IF PercentLeq(percentChange, 3) THEN Null
             ELSE createAnomaly(
                      reading,
                      IF reading.energyKw > previousReading.energyKw
                      THEN "spike" ELSE "drop",
                      previousReading.energyKw,
                      IF PercentGt(percentChange, 5)
                      THEN "critical" ELSE "warning")

\* lines 70-82: the two threshold rules, for a registered range
ThresholdCheck(reading, range) ==
    LET energyKw       == reading.energyKw
        spikeThreshold == Times15(range.max)
        dropThreshold  == Times05(range.min)
    IN  IF energyKw > spikeThreshold
        THEN createAnomaly(reading, "spike", spikeThreshold,
                           calculateSeverity(energyKw, range.max, 2))
        ELSE IF energyKw < dropThreshold
        THEN createAnomaly(reading, "drop", dropThreshold,
                           IF LessThanTimes03(energyKw, range.min)
                           THEN "critical" ELSE "warning")
        ELSE Null

\* slip: the pattern rule is tried before the threshold rules
detectAnomaly_PatternFirst(reading, previousReading) ==
    LET range == ZoneRangeLookup(reading.zoneId) IN
    IF range = Undefined THEN Null
    ELSE IF ~range.own
         THEN PatternCheck(reading, previousReading)
         ELSE LET byPattern == PatternCheck(reading, previousReading)
              IN  IF byPattern # Null THEN byPattern
                  ELSE ThresholdCheck(reading, range)

detectAnomaly(reading, previousReading) ==
    LET range == ZoneRangeLookup(reading.zoneId) IN
    IF range = Undefined THEN Null
    ELSE IF ~range.own
         \* range.max and range.min are undefined, both thresholds are NaN
         \* and neither threshold comparison holds
         THEN PatternCheck(reading, previousReading)
         ELSE LET byThreshold == ThresholdCheck(reading, range)
              IN  IF byThreshold # Null THEN byThreshold
                  ELSE PatternCheck(reading, previousReading)

\* ------------------------------------------------------------------- Map
MapGet(m, k) == IF k \in DOMAIN m THEN m[k] ELSE Undefined

MapSet(m, k, v) == (k :> v) @@ m

EmptyMap == <<>>

\* Array.prototype.slice(-n), n > 0
SliceLast(s, n) ==
    IF Len(s) <= n THEN s ELSE SubSeq(s, Len(s) - n + 1, Len(s))

\* ------------------------------------------------------------------ state
VARIABLES
    latestReadings,       \* useState: Map zoneId -> reading
    readings,             \* useState: Map zoneId -> array of readings
    anomalies,            \* useState: array of anomalies
    previousReadingsRef,  \* useRef:   Map zoneId -> reading
    callReading,          \* first argument of the last detectAnomaly call
    callPrevious,         \* second argument of that call
    callResult,           \* what that call returned
    ingested,             \* history: every reading handed to handleMessage
    produced,             \* history: every anomaly detectAnomaly returned
    status,               \* useWebSocket useState: ConnectionStatus
    attempts,             \* useWebSocket useState: attempts
    reconnectAttemptsRef, \* useWebSocket useRef: the counter the delay uses
    isMounted,            \* the effect's isMounted flag
    sockets,              \* every WebSocket created so far: its readyState
    wsRef,                \* useRef: index of the socket last created, 0 = null
    timers,               \* ids of the timeouts that are pending
    timeoutRef,           \* useRef: id of the timeout last set, 0 = undefined
    closes,               \* history: close events handled since the last open
    opens,                \* history: open events handled
    lastDelay,            \* history: delay computed by the last close, 0 = none
    lastMessage,          \* history: the payload of the last message event
    corpus,               \* argument of calculateBaselines
    baselines,            \* what calculateBaselines returned
    timeRange,            \* HistoricalComparison useState: timeRange
    loading,              \* useHistoricalData useState: loading
    error,                \* useHistoricalData useState: error
    baselinesState,       \* useHistoricalData useState: baselines
    historyMounted,       \* useHistoricalData: the effect's isMounted flag
    load,                 \* the promise of loadHistoricalData: in flight or settled
    compareArgs,          \* arguments of a comparison: current and baseline
    compareResult,        \* percentage and status the comparison gave
    currentZoneIndex,     \* mock server: currentZoneIndex
    clients,              \* mock server: how many sockets of wss.clients are open, closing
    sent                  \* history: the zone of each reading broadcast

store == <<latestReadings, readings, anomalies, previousReadingsRef>>

detector == <<callReading, callPrevious, callResult, ingested, produced>>

adapter == <<status, attempts, reconnectAttemptsRef, isMounted, sockets, wsRef,
             timers, timeoutRef, closes, opens, lastDelay, lastMessage>>

baseline == <<corpus, baselines>>

history == <<timeRange, loading, error, baselinesState, historyMounted, load>>

compare == <<compareArgs, compareResult>>

server == <<currentZoneIndex, clients, sent>>

vars == <<store, detector, adapter, baseline, history, compare, server>>

\* ----------------------------------------------------------------- inputs
\* zoneIds of the detector's arguments: two registered zones, an unregistered
\* one, and an unregistered one that names a member of Object.prototype
InputZones == {"warehouse", "quality-control", "loading-dock", "constructor"}

\* zoneIds of the stream of Spec
StreamZones == {"warehouse", "loading-dock", "constructor"}

ZoneNameOf(zoneId) ==
    CASE zoneId = "warehouse"       -> "Warehouse"
      [] zoneId = "quality-control" -> "Quality Control"
      [] OTHER                      -> "Unnamed"

NameVals == {"Warehouse", "Quality Control", "Unnamed"}

Timestamps == 1..MaxTimestamp

\* energyKw of the stream: 0, below warehouse's drop threshold 10; 30 and 40
\* between its thresholds; 70 above its spike threshold 60
EnergyVals == {0, 30, 40, 70}

StreamReadings ==
    { [zoneId |-> z, zoneName |-> ZoneNameOf(z), timestamp |-> t, energyKw |-> e] :
        z \in StreamZones, t \in Timestamps, e \in EnergyVals }

\* ------------------------------------------------------------- operations
\* slip: slice(0, MAX_ANOMALIES) keeps the oldest entries
UpdateAnomalies_KeepOldest(prev, anomaly) ==
    LET updated == Append(prev, anomaly)
    IN  IF Len(updated) <= MAX_ANOMALIES THEN updated
        ELSE SubSeq(updated, 1, MAX_ANOMALIES)

\* EnergyContext.tsx 35-39: the updater handed to setAnomalies
UpdateAnomalies(prev, anomaly) ==
    LET updated == Append(prev, anomaly) IN SliceLast(updated, MAX_ANOMALIES)

\* slip: an entry that exists is not replaced
UpdateLatestReadings_KeepFirst(prev, reading) ==
    IF reading.zoneId \in DOMAIN prev THEN prev
    ELSE MapSet(prev, reading.zoneId, reading)

\* EnergyContext.tsx 47: the updater handed to setLatestReadings
UpdateLatestReadings(prev, reading) == MapSet(prev, reading.zoneId, reading)

\* slip: one window for all zones, the reading is appended for every key
UpdateReadings_SharedWindow(prev, reading) ==
    LET withZone == IF reading.zoneId \in DOMAIN prev THEN prev
                    ELSE MapSet(prev, reading.zoneId, <<>>)
    IN  [z \in DOMAIN withZone |->
            LET newReadings == Append(withZone[z], reading)
            IN  IF Len(newReadings) > MAX_READINGS_PER_ZONE
                THEN Tail(newReadings) ELSE newReadings]

\* slip: >= where the code has >, the window stops one short of capacity
UpdateReadings_OneShort(prev, reading) ==
    LET zoneReadings == IF reading.zoneId \in DOMAIN prev
                        THEN prev[reading.zoneId] ELSE <<>>
        newReadings  == Append(zoneReadings, reading)
    IN  MapSet(prev, reading.zoneId,
               IF Len(newReadings) >= MAX_READINGS_PER_ZONE
               THEN Tail(newReadings) ELSE newReadings)

\* EnergyContext.tsx 50-62: the updater handed to setReadings
UpdateReadings(prev, reading) ==
    LET zoneReadings == IF reading.zoneId \in DOMAIN prev
                        THEN prev[reading.zoneId] ELSE <<>>
        newReadings  == Append(zoneReadings, reading)
    IN  MapSet(prev, reading.zoneId,
               IF Len(newReadings) > MAX_READINGS_PER_ZONE
               THEN Tail(newReadings) ELSE newReadings)

\* the state as one record, and its installation as the next state
Current ==
    [ latestReadings      |-> latestReadings,
      readings            |-> readings,
      anomalies           |-> anomalies,
      previousReadingsRef |-> previousReadingsRef,
      callReading         |-> callReading,
      callPrevious        |-> callPrevious,
      callResult          |-> callResult,
      ingested            |-> ingested,
      produced            |-> produced ]

Becomes(st) ==
    /\ latestReadings' = st.latestReadings
    /\ readings' = st.readings
    /\ anomalies' = st.anomalies
    /\ previousReadingsRef' = st.previousReadingsRef
    /\ callReading' = st.callReading
    /\ callPrevious' = st.callPrevious
    /\ callResult' = st.callResult
    /\ ingested' = st.ingested
    /\ produced' = st.produced

\* slip: the previous reading is read from a map that is never filled (the
\* callback closes over the first render's state), so it is always undefined
Handled_StalePrevious(st, reading) ==
    LET previousReading == MapGet(EmptyMap, reading.zoneId)
        anomaly         == detectAnomaly(reading, previousReading)
    IN  [ anomalies           |-> IF anomaly # Null
                                  THEN UpdateAnomalies(st.anomalies, anomaly)
                                  ELSE st.anomalies,
          previousReadingsRef |-> MapSet(st.previousReadingsRef, reading.zoneId, reading),
          latestReadings      |-> UpdateLatestReadings(st.latestReadings, reading),
          readings            |-> UpdateReadings(st.readings, reading),
          callReading         |-> reading,
          callPrevious        |-> previousReading,
          callResult          |-> anomaly,
          ingested            |-> Append(st.ingested, reading),
          produced            |-> IF anomaly # Null
                                  THEN Append(st.produced, anomaly)
                                  ELSE st.produced ]

\* EnergyContext.tsx 29-63: one message, start to end, as the state it
\* leaves behind.  The three state updaters are queued in this order and
\* applied to the state they were queued against before anything else runs.
Handled(st, reading) ==
    LET previousReading == MapGet(st.previousReadingsRef, reading.zoneId)
        anomaly         == detectAnomaly(reading, previousReading)
    IN  [ anomalies           |-> IF anomaly # Null
                                  THEN UpdateAnomalies(st.anomalies, anomaly)
                                  ELSE st.anomalies,
          previousReadingsRef |-> MapSet(st.previousReadingsRef, reading.zoneId, reading),
          latestReadings      |-> UpdateLatestReadings(st.latestReadings, reading),
          readings            |-> UpdateReadings(st.readings, reading),
          callReading         |-> reading,
          callPrevious        |-> previousReading,
          callResult          |-> anomaly,
          ingested            |-> Append(st.ingested, reading),
          produced            |-> IF anomaly # Null
                                  THEN Append(st.produced, anomaly)
                                  ELSE st.produced ]

handleMessage(reading) == Becomes(Handled(Current, reading))

\* a message of the stream arrives
Ingest ==
    /\ Len(ingested) < MaxIngest
    /\ \E reading \in StreamReadings : handleMessage(reading)
    /\ UNCHANGED <<adapter, baseline>>
    /\ UNCHANGED <<history, compare, server>>

StoreInit ==
    /\ latestReadings = EmptyMap
    /\ readings = EmptyMap
    /\ anomalies = <<>>
    /\ previousReadingsRef = EmptyMap
    /\ ingested = <<>>
    /\ produced = <<>>

\* useWebSocket.ts 77-81, 84, 136: the hook's state once the effect has run
\* connect() for the first time
AdapterInit ==
    /\ status = "CONNECTING"
    /\ attempts = 0
    /\ reconnectAttemptsRef = 0
    /\ isMounted = TRUE
    /\ sockets = <<"CONNECTING">>
    /\ wsRef = 1
    /\ timers = {}
    /\ timeoutRef = 0
    /\ closes = 0
    /\ opens = 0
    /\ lastDelay = 0
    /\ lastMessage = "none"

\* no corpus has been handed to calculateBaselines
BaselineIdle ==
    /\ corpus = <<>>
    /\ baselines = Pending

\* useHistoricalData.ts 16-25, 53: the hook's state once the effect has called
\* loadData(); HistoricalComparison.tsx 101
HistoryInit ==
    /\ timeRange = "week"
    /\ loading = TRUE
    /\ error = Null
    /\ baselinesState = EmptyMap
    /\ historyMounted = TRUE
    /\ load = "inflight"

\* no comparison has been asked for
CompareIdle ==
    /\ compareArgs = NoCall
    /\ compareResult = Pending

\* mock-server.ts 140, 299: the server has started, no client has connected
ServerInit ==
    /\ currentZoneIndex = 0
    /\ clients = [open |-> 0, closing |-> 0]
    /\ sent = <<>>

Init ==
    /\ StoreInit
    /\ callReading = NoCall
    /\ callPrevious = Undefined
    /\ callResult = Pending
    /\ AdapterInit
    /\ BaselineIdle
    /\ HistoryInit
    /\ CompareIdle
    /\ ServerInit

Next == Ingest

Spec == Init /\ [][Next]_vars

\* ------------------------------------------------ the detector on its own
\* arguments of one detectAnomaly call: any reading, and no previous reading
\* or a previous reading of any zone
DetectReadings ==
    { [zoneId |-> z, zoneName |-> ZoneNameOf(z), timestamp |-> t, energyKw |-> e] :
        z \in InputZones, t \in Timestamps, e \in 0..MaxEnergyKw }

DetectPrevious ==
    { [zoneId |-> z, zoneName |-> ZoneNameOf(z), timestamp |-> 1, energyKw |-> e] :
        z \in InputZones, e \in 0..MaxEnergyKw } \cup {Undefined}

DetectInit ==
    /\ StoreInit
    /\ callReading \in DetectReadings
    /\ callPrevious \in DetectPrevious
    /\ callResult = Pending
    /\ AdapterInit
    /\ BaselineIdle
    /\ HistoryInit
    /\ CompareIdle
    /\ ServerInit

Detect ==
    /\ callResult = Pending
    /\ callResult' = detectAnomaly(callReading, callPrevious)
    /\ UNCHANGED <<store, callReading, callPrevious, ingested, produced>>
    /\ UNCHANGED <<adapter, baseline>>
    /\ UNCHANGED <<history, compare, server>>

DetectNext == Detect

SpecDetect == DetectInit /\ [][DetectNext]_vars

\* ------------------------------------------------------- a long stream
\* The n-th message of a fixed stream that is long enough to fill a history
\* window and the anomaly log: every tenth reading is quality-control's, the
\* others are warehouse's; the energy cycles with period 7; every fifth
\* timestamp is late.
ReplayEnergy == <<30, 40, 70, 0, 30, 30, 40>>

ReplayReading(n) ==
    LET z == IF n % 10 = 0 THEN "quality-control" ELSE "warehouse" IN
    [ zoneId    |-> z,
      zoneName  |-> ZoneNameOf(z),
      timestamp |-> IF n % 5 = 0 THEN n - 2 ELSE n,
      energyKw  |-> ReplayEnergy[(n % 7) + 1] ]

\* the state after the messages n+1 .. n+k of the stream, handled in order:
\* the first half of them, then, from the state they leave (st holds n
\* readings, so that state holds n + k \div 2), the rest
RECURSIVE ReplayedFrom(_, _, _)
ReplayedFrom(st, n, k) ==
    IF k = 0 THEN st
    ELSE IF k = 1 THEN Handled(st, ReplayReading(n + 1))
    ELSE LET mid == ReplayedFrom(st, n, k \div 2)
         IN  IF Len(mid.ingested) = n + (k \div 2)
             THEN ReplayedFrom(mid, n + (k \div 2), k - (k \div 2))
             ELSE mid

\* the next message of the stream arrives
Replay ==
    /\ Len(ingested) < MaxReplay
    /\ handleMessage(ReplayReading(Len(ingested) + 1))
    /\ UNCHANGED <<adapter, baseline>>
    /\ UNCHANGED <<history, compare, server>>

\* the next BurstLen messages arrive back to back; the state is looked at
\* again after the last of them
ReplayBurst ==
    /\ Len(ingested) % BurstLen = 0
    /\ Len(ingested) + BurstLen <= MaxReplay
    /\ Becomes(ReplayedFrom(Current, Len(ingested), BurstLen))
    /\ UNCHANGED <<adapter, baseline>>
    /\ UNCHANGED <<history, compare, server>>

ReplayNext == Replay \/ ReplayBurst

SpecReplay == Init /\ [][ReplayNext]_vars

\* ================================================================= claims
\* a detectAnomaly call has returned
Called == callReading # NoCall /\ callResult # Pending

\* the reading's zone has an entry in the zone-range table
Registered == callReading.zoneId \in DOMAIN ZONE_RANGES

RangeMin == ZONE_RANGES[callReading.zoneId].min

RangeMax == ZONE_RANGES[callReading.zoneId].max

\* energyKw > 1.5 * max, energyKw < 0.5 * min, in tenths
AboveSpike == callReading.energyKw * 10 > 15 * RangeMax

BelowDrop == callReading.energyKw * 10 < 5 * RangeMin

\* the call had a previous reading of the reading's zone
SameZonePrevious ==
    /\ callPrevious # Undefined
    /\ callPrevious.zoneId = callReading.zoneId

\* |energyKw - previous| / previous > a/10 for a previous energyKw > 0
ChangeAbove(a) ==
    10 * Abs(callReading.energyKw - callPrevious.energyKw)
        > a * callPrevious.energyKw

\* C1: a reading of a registered zone with energyKw > 1.5 * max yields a spike
\* whose threshold is 1.5 * max and whose severity is critical exactly when
\* energyKw > 2 * max and warning otherwise, whatever the previous reading.
C1_SpikeThreshold ==
    (Called /\ Registered /\ AboveSpike) =>
        /\ callResult # Null
        /\ callResult.type = "spike"
        /\ callResult.threshold * 10 = 15 * RangeMax
        /\ callResult.severity =
              IF callReading.energyKw > 2 * RangeMax THEN "critical" ELSE "warning"

\* C1 witness: warehouse at exactly 2 * max = 80 kW after a previous reading of
\* the zone: a spike, still a warning.
C1_Witness ==
    /\ Called
    /\ callReading.zoneId = "warehouse"
    /\ callReading.energyKw = 80
    /\ SameZonePrevious
    /\ callResult # Null
    /\ callResult.severity = "warning"

\* C2: a reading of a registered zone with energyKw < 0.5 * min yields a drop
\* whose threshold is 0.5 * min and whose severity is critical exactly when
\* energyKw < 0.3 * min and warning otherwise, whatever the previous reading.
C2_DropThreshold ==
    (Called /\ Registered /\ BelowDrop) =>
        /\ callResult # Null
        /\ callResult.type = "drop"
        /\ callResult.threshold * 10 = 5 * RangeMin
        /\ callResult.severity =
              IF callReading.energyKw * 10 < 3 * RangeMin
              THEN "critical" ELSE "warning"

\* C2 witness: quality-control at exactly 0.3 * min = 15 kW after a previous
\* reading of the zone: a drop, still a warning.
C2_Witness ==
    /\ Called
    /\ callReading.zoneId = "quality-control"
    /\ callReading.energyKw = 15
    /\ SameZonePrevious
    /\ callResult # Null
    /\ callResult.type = "drop"
    /\ callResult.severity = "warning"

\* C3: for a reading within the threshold bounds of its registered zone: with
\* no previous reading or a previous reading of another zone the result is
\* none; with a previous reading of the zone (energyKw > 0) the result is none
\* when the change is at most 30% of the previous value, and otherwise an
\* anomaly of type spike if energyKw rose and drop if not, with the previous
\* energyKw as threshold and severity critical exactly when the change is
\* above 50%.
C3_PatternRule ==
    (Called /\ Registered /\ ~AboveSpike /\ ~BelowDrop) =>
        IF ~SameZonePrevious
        THEN callResult = Null
        ELSE callPrevious.energyKw > 0 =>
               IF ~ChangeAbove(3)
               THEN callResult = Null
               ELSE /\ callResult # Null
                    /\ callResult.type =
                          IF callReading.energyKw > callPrevious.energyKw
                          THEN "spike" ELSE "drop"
                    /\ callResult.threshold = callPrevious.energyKw
                    /\ callResult.severity =
                          IF ChangeAbove(5) THEN "critical" ELSE "warning"

\* C3 witness: warehouse goes from 40 to 52 kW, a change of exactly 30%,
\* inside the bounds 10..60: no anomaly.
C3_Witness ==
    /\ Called
    /\ callReading.zoneId = "warehouse"
    /\ callReading.energyKw = 52
    /\ SameZonePrevious
    /\ callPrevious.energyKw = 40
    /\ callResult = Null

\* C4: when a threshold rule matches and the change from the previous reading
\* of the zone is above 30% as well, the anomaly is the threshold rule's: its
\* threshold is 1.5 * max (spike) or 0.5 * min (drop) and its severity is taken
\* from 2 * max or 0.3 * min, not from the size of the change; the spike rule
\* goes before the drop rule.
C4_FirstMatchWins ==
    (/\ Called /\ Registered /\ SameZonePrevious
     /\ ChangeAbove(3)
     /\ (AboveSpike \/ BelowDrop)) =>
        /\ callResult # Null
        /\ callResult.type = IF AboveSpike THEN "spike" ELSE "drop"
        /\ callResult.threshold * 10 =
              IF AboveSpike THEN 15 * RangeMax ELSE 5 * RangeMin
        /\ callResult.severity =
              IF AboveSpike
              THEN IF callReading.energyKw > 2 * RangeMax
                   THEN "critical" ELSE "warning"
              ELSE IF callReading.energyKw * 10 < 3 * RangeMin
                   THEN "critical" ELSE "warning"

\* C4 witness: warehouse jumps from 30 to 70 kW: the change is above 50%,
\* which the pattern rule would call critical with threshold 30, but the
\* spike rule answers with threshold 60 and a warning.
C4_Witness ==
    /\ Called
    /\ callReading.zoneId = "warehouse"
    /\ callReading.energyKw = 70
    /\ SameZonePrevious
    /\ callPrevious.energyKw = 30
    /\ callResult # Null
    /\ callResult.threshold = 60
    /\ callResult.severity = "warning"

\* C5: with a previous reading of the zone whose energyKw is exactly 0 and a
\* current reading within the threshold bounds, no pattern check is made and
\* the result is none.
C5_ZeroPreviousIsGuarded ==
    (/\ Called /\ Registered /\ ~AboveSpike /\ ~BelowDrop
     /\ SameZonePrevious
     /\ callPrevious.energyKw = 0) =>
        callResult = Null

\* C6: a reading whose zoneId is not in the zone-range table yields none, for
\* every energyKw and every previous reading, and so no anomaly of such a zone
\* is ever in the log.
C6_UnregisteredZoneIsNone ==
    /\ (Called /\ ~Registered) => callResult = Null
    /\ \A i \in 1..Len(anomalies) : anomalies[i].zoneId \in DOMAIN ZONE_RANGES

\* the zoneIds ingested so far, and one zone's readings in arrival order
ZonesSeen == { ingested[i].zoneId : i \in 1..Len(ingested) }

ZoneIngested(z) == SelectSeq(ingested, LAMBDA r : r.zoneId = z)

\* the last Min(Len(s), n) elements of s, in order
LastOf(s, n) ==
    LET k == IF Len(s) < n THEN Len(s) ELSE n
    IN  [i \in 1..k |-> s[Len(s) - k + i]]

\* C7: every zone's history window has at most MAX_READINGS_PER_ZONE = 1500
\* elements and is exactly the last min(n, 1500) readings ingested for the
\* zone, in arrival order; after 1501 appends to a zone its window starts with
\* the 2nd reading appended.
C7_WindowIsLastReadings ==
    /\ DOMAIN readings = ZonesSeen
    /\ \A z \in ZonesSeen :
          LET all == ZoneIngested(z) IN
          /\ Len(readings[z]) <= MAX_READINGS_PER_ZONE
          /\ readings[z] = LastOf(all, MAX_READINGS_PER_ZONE)
          /\ Len(all) = MAX_READINGS_PER_ZONE + 1 => readings[z][1] = all[2]

\* C7 witness: warehouse has received 1501 readings and holds 1500 of them,
\* the first being the 2nd received.
C7_Witness ==
    /\ "warehouse" \in DOMAIN readings
    /\ Len(ZoneIngested("warehouse")) = MAX_READINGS_PER_ZONE + 1
    /\ Len(readings["warehouse"]) = MAX_READINGS_PER_ZONE
    /\ readings["warehouse"][1] = ZoneIngested("warehouse")[2]
    /\ readings["warehouse"][1] # ZoneIngested("warehouse")[1]

\* C8: for every zone that has received a reading, the last element of its
\* history window, its latestReadings entry and its previous-reading entry
\* are all the reading most recently ingested for that zone.
C8_LatestIsNewest ==
    \A z \in ZonesSeen :
        LET all    == ZoneIngested(z)
            newest == all[Len(all)]
        IN  /\ z \in DOMAIN readings
            /\ z \in DOMAIN latestReadings
            /\ z \in DOMAIN previousReadingsRef
            /\ readings[z][Len(readings[z])] = newest
            /\ latestReadings[z] = newest
            /\ previousReadingsRef[z] = newest

\* C8 witness: warehouse, loading-dock, warehouse again with a different
\* reading: each zone's latest entry is its own newest reading.
C8_Witness ==
    /\ Len(ingested) = 3
    /\ ingested[1].zoneId = "warehouse"
    /\ ingested[2].zoneId = "loading-dock"
    /\ ingested[3].zoneId = "warehouse"
    /\ ingested[3] # ingested[1]
    /\ latestReadings["warehouse"] = ingested[3]
    /\ previousReadingsRef["warehouse"] = ingested[3]
    /\ readings["warehouse"] = <<ingested[1], ingested[3]>>
    /\ latestReadings["loading-dock"] = ingested[2]

\* C9: the anomaly log has at most MAX_ANOMALIES = 50 entries and is exactly
\* the last min(m, 50) anomalies produced so far, in production order (so an
\* append to a full log drops the oldest entry and keeps the others as they
\* were).
C9_LogIsLastAnomalies ==
    /\ Len(anomalies) <= MAX_ANOMALIES
    /\ anomalies = LastOf(produced, MAX_ANOMALIES)

\* C9 witness: 51 anomalies were produced; the log holds the 2nd to the 51st.
C9_Witness ==
    /\ Len(produced) = MAX_ANOMALIES + 1
    /\ Len(anomalies) = MAX_ANOMALIES
    /\ anomalies[1] = produced[2]
    /\ anomalies[1] # produced[1]
    /\ anomalies[MAX_ANOMALIES] = produced[MAX_ANOMALIES + 1]

\* one ingestion, seen from the anomaly log
C10_Step ==
    LET reading == ingested'[Len(ingested')]
        n       == Len(anomalies)
        n2      == Len(anomalies')
    IN  IF callResult' = Null
        THEN anomalies' = anomalies
        ELSE /\ n2 = (IF n < MAX_ANOMALIES THEN n + 1 ELSE MAX_ANOMALIES)
             /\ \A i \in 1..(n2 - 1) : anomalies'[i] = anomalies[i + (n + 1 - n2)]
             /\ anomalies'[n2].zoneId = reading.zoneId
             /\ anomalies'[n2].zoneName = reading.zoneName
             /\ anomalies'[n2].timestamp = reading.timestamp
             /\ anomalies'[n2].value = reading.energyKw

\* C10: ingesting a reading appends exactly one anomaly, carrying the
\* reading's zoneId, zoneName, timestamp and energyKw, when the detector
\* returns one, and leaves the log as it was when the detector returns none;
\* the entries already in the log keep all their fields.
C10_OneAnomalyPerReading == [][C10_Step]_vars

\* C10 witness: three readings of which the first two raised an anomaly and
\* the third did not; the log holds the two.
C10_Witness ==
    /\ Len(ingested) = 3
    /\ Len(produced) = 2
    /\ callResult = Null
    /\ Len(anomalies) = 2
    /\ anomalies[1].value = ingested[1].energyKw
    /\ anomalies[2].value = ingested[2].energyKw

\* C11: all anomalies in the log have pairwise distinct ids, also when two
\* anomalous readings of one zone carry the same timestamp.
C11_AnomalyIdsDistinct ==
    \A i, j \in 1..Len(anomalies) : i # j => anomalies[i].id # anomalies[j].id

\* the readings of zone z ingested before the latest reading
EarlierOfZone(z) ==
    SelectSeq(SubSeq(ingested, 1, Len(ingested) - 1), LAMBDA r : r.zoneId = z)

\* C12: the previous reading handed to the detector is the reading of the
\* same zone ingested immediately before in arrival order, and none for the
\* zone's first reading, whatever the timestamps and whether or not the
\* earlier reading raised an anomaly.
C12_PreviousByArrival ==
    (Called /\ Len(ingested) > 0) =>
        /\ callReading = ingested[Len(ingested)]
        /\ LET earlier == EarlierOfZone(callReading.zoneId)
           IN  callPrevious = IF earlier = <<>> THEN Undefined
                              ELSE earlier[Len(earlier)]

\* C12 witness: warehouse at timestamp 2 raises an anomaly, loading-dock
\* follows, then warehouse at the earlier timestamp 1: the detector is handed
\* the first reading as previous.
C12_Witness ==
    /\ Len(ingested) = 3
    /\ ingested[1].zoneId = "warehouse"
    /\ ingested[1].timestamp = 2
    /\ Len(produced) >= 1
    /\ produced[1].timestamp = 2
    /\ ingested[2].zoneId = "loading-dock"
    /\ ingested[3].zoneId = "warehouse"
    /\ ingested[3].timestamp = 1
    /\ callPrevious = ingested[1]

\* ---------------------------------------------------------------------------
\* The reading source adapter: useWebSocket (the variant EnergyContext uses)
\* ---------------------------------------------------------------------------

MaxOpens == 1
MaxMessages == 2

MAX_RECONNECT == 5

RECURSIVE Pow2(_)
Pow2(n) == IF n = 0 THEN 1 ELSE 2 * Pow2(n - 1)

\* slip: the delay grows by one base delay per attempt
ReconnectDelay_Linear(n) == 1000 * (n + 1)

\* const delay = 1000 * Math.pow(2, reconnectAttemptsRef.current)
ReconnectDelay(n) == 1000 * Pow2(n)

\* a reading whose JSON text carries no zoneId: the property reads undefined.
\* The Map key undefined is written as a string no zone uses; as a property
\* name of ZONE_RANGES it is coerced to exactly this string.
MalformedReading ==
    [zoneId |-> "undefined", zoneName |-> "Warehouse", timestamp |-> 1, energyKw |-> 30]

SocketReadings ==
    { r \in StreamReadings :
        r.zoneId = "warehouse" /\ r.timestamp = 1 /\ r.energyKw \in {30, 70} }

\* the texts a message event can carry: not JSON at all, or the JSON text of
\* an object
SocketPayloads ==
    {[kind |-> "unparsable", parses |-> FALSE, value |-> MalformedReading]}
        \cup {[kind |-> "malformed", parses |-> TRUE, value |-> MalformedReading]}
        \cup {[kind |-> "reading", parses |-> TRUE, value |-> r] : r \in SocketReadings}

\* JSON.parse: throws on a text that is not JSON, else the object it describes
JSONParse(payload) ==
    IF payload.parses THEN [threw |-> FALSE, value |-> payload.value]
    ELSE [threw |-> TRUE, value |-> Null]

\* new WebSocket(WS_URL); wsRef.current = ws
connect ==
    /\ sockets' = Append(sockets, "CONNECTING")
    /\ wsRef' = Len(sockets) + 1

\* slip: the open handler leaves the counter the delay is computed from
SocketOpen_KeepsCounter(i) ==
    /\ opens < MaxOpens
    /\ sockets[i] = "CONNECTING"
    /\ sockets' = [sockets EXCEPT ![i] = "OPEN"]
    /\ IF isMounted
       THEN /\ status' = "CONNECTED"
            /\ attempts' = 0
            /\ opens' = opens + 1
            /\ closes' = 0
            /\ UNCHANGED reconnectAttemptsRef
       ELSE UNCHANGED <<status, attempts, reconnectAttemptsRef, opens, closes>>
    /\ UNCHANGED <<isMounted, wsRef, timers, timeoutRef, lastDelay, lastMessage>>
    /\ UNCHANGED <<store, detector, baseline>>
    /\ UNCHANGED <<history, compare, server>>

\* ws.onopen
SocketOpen(i) ==
    /\ opens < MaxOpens
    /\ sockets[i] = "CONNECTING"
    /\ sockets' = [sockets EXCEPT ![i] = "OPEN"]
    /\ IF isMounted
       THEN /\ status' = "CONNECTED"
            /\ attempts' = 0
            /\ reconnectAttemptsRef' = 0
            /\ opens' = opens + 1
            /\ closes' = 0
       ELSE UNCHANGED <<status, attempts, reconnectAttemptsRef, opens, closes>>
    /\ UNCHANGED <<isMounted, wsRef, timers, timeoutRef, lastDelay, lastMessage>>
    /\ UNCHANGED <<store, detector, baseline>>
    /\ UNCHANGED <<history, compare, server>>

\* ws.onmessage: the parsed object goes to handleMessage as it is; a text that
\* does not parse is caught and logged
SocketMessage(i, payload) ==
    /\ sockets[i] = "OPEN"
    /\ Len(ingested) < MaxMessages
    /\ lastMessage' = payload.kind
    /\ IF isMounted /\ ~JSONParse(payload).threw
       THEN handleMessage(JSONParse(payload).value)
       ELSE UNCHANGED <<store, detector>>
    /\ UNCHANGED <<status, attempts, reconnectAttemptsRef, isMounted, sockets,
                   wsRef, timers, timeoutRef, closes, opens, lastDelay>>
    /\ UNCHANGED baseline
    /\ UNCHANGED <<history, compare, server>>

\* slip: the error handler schedules a retry of its own
SocketError_AlsoRetries(i) ==
    /\ sockets[i] \in {"CONNECTING", "OPEN"}
    /\ sockets' = [sockets EXCEPT ![i] = "FAILED"]
    /\ status' = IF isMounted THEN "ERROR" ELSE status
    /\ timeoutRef' = IF isMounted THEN timeoutRef + 1 ELSE timeoutRef
    /\ timers' = IF isMounted THEN timers \cup {timeoutRef + 1} ELSE timers
    /\ UNCHANGED <<attempts, reconnectAttemptsRef, isMounted, wsRef,
                   closes, opens, lastDelay, lastMessage>>
    /\ UNCHANGED <<store, detector, baseline>>
    /\ UNCHANGED <<history, compare, server>>

\* ws.onerror: the connection failed; its close event follows
SocketError(i) ==
    /\ sockets[i] \in {"CONNECTING", "OPEN"}
    /\ sockets' = [sockets EXCEPT ![i] = "FAILED"]
    /\ status' = IF isMounted THEN "ERROR" ELSE status
    /\ UNCHANGED <<attempts, reconnectAttemptsRef, isMounted, wsRef, timers,
                   timeoutRef, closes, opens, lastDelay, lastMessage>>
    /\ UNCHANGED <<store, detector, baseline>>
    /\ UNCHANGED <<history, compare, server>>

\* slip: a lost connection is reported but no retry is ever scheduled
SocketClose_NoRetry(i) ==
    /\ sockets[i] \in {"OPEN", "FAILED", "CLOSING"}
    /\ sockets' = [sockets EXCEPT ![i] = "CLOSED"]
    /\ IF isMounted
       THEN /\ status' = "DISCONNECTED"
            /\ closes' = closes + 1
            /\ lastDelay' = 0
            /\ UNCHANGED <<attempts, reconnectAttemptsRef, timers, timeoutRef>>
       ELSE UNCHANGED <<status, closes, lastDelay, attempts,
                        reconnectAttemptsRef, timers, timeoutRef>>
    /\ UNCHANGED <<isMounted, wsRef, opens, lastMessage>>
    /\ UNCHANGED <<store, detector, baseline>>
    /\ UNCHANGED <<history, compare, server>>

\* slip: <= where the code has <, one retry more than the ceiling
SocketClose_OneMoreRetry(i) ==
    /\ sockets[i] \in {"OPEN", "FAILED", "CLOSING"}
    /\ sockets' = [sockets EXCEPT ![i] = "CLOSED"]
    /\ IF isMounted
       THEN /\ status' = "DISCONNECTED"
            /\ closes' = closes + 1
            /\ IF reconnectAttemptsRef <= MAX_RECONNECT
               THEN /\ lastDelay' = ReconnectDelay(reconnectAttemptsRef)
                    /\ reconnectAttemptsRef' = reconnectAttemptsRef + 1
                    /\ attempts' = reconnectAttemptsRef + 1
                    /\ timeoutRef' = timeoutRef + 1
                    /\ timers' = timers \cup {timeoutRef + 1}
               ELSE /\ lastDelay' = 0
                    /\ UNCHANGED <<attempts, reconnectAttemptsRef, timers, timeoutRef>>
       ELSE UNCHANGED <<status, closes, lastDelay, attempts,
                        reconnectAttemptsRef, timers, timeoutRef>>
    /\ UNCHANGED <<isMounted, wsRef, opens, lastMessage>>
    /\ UNCHANGED <<store, detector, baseline>>
    /\ UNCHANGED <<history, compare, server>>

\* slip: the exposed attempts value is not updated with the counter
SocketClose_StaleAttempts(i) ==
    /\ sockets[i] \in {"OPEN", "FAILED", "CLOSING"}
    /\ sockets' = [sockets EXCEPT ![i] = "CLOSED"]
    /\ IF isMounted
       THEN /\ status' = "DISCONNECTED"
            /\ closes' = closes + 1
            /\ IF reconnectAttemptsRef < MAX_RECONNECT
               THEN /\ lastDelay' = ReconnectDelay(reconnectAttemptsRef)
                    /\ reconnectAttemptsRef' = reconnectAttemptsRef + 1
                    /\ attempts' = attempts
                    /\ timeoutRef' = timeoutRef + 1
                    /\ timers' = timers \cup {timeoutRef + 1}
               ELSE /\ lastDelay' = 0
                    /\ UNCHANGED <<attempts, reconnectAttemptsRef, timers, timeoutRef>>
       ELSE UNCHANGED <<status, closes, lastDelay, attempts,
                        reconnectAttemptsRef, timers, timeoutRef>>
    /\ UNCHANGED <<isMounted, wsRef, opens, lastMessage>>
    /\ UNCHANGED <<store, detector, baseline>>
    /\ UNCHANGED <<history, compare, server>>

\* ws.onclose
SocketClose(i) ==
    /\ sockets[i] \in {"OPEN", "FAILED", "CLOSING"}
    /\ sockets' = [sockets EXCEPT ![i] = "CLOSED"]
    /\ IF isMounted
       THEN /\ status' = "DISCONNECTED"
            /\ closes' = closes + 1
            /\ IF reconnectAttemptsRef < MAX_RECONNECT
               THEN /\ lastDelay' = ReconnectDelay(reconnectAttemptsRef)
                    /\ reconnectAttemptsRef' = reconnectAttemptsRef + 1
                    /\ attempts' = reconnectAttemptsRef + 1
                    /\ timeoutRef' = timeoutRef + 1
                    /\ timers' = timers \cup {timeoutRef + 1}
               ELSE /\ lastDelay' = 0
                    /\ UNCHANGED <<attempts, reconnectAttemptsRef, timers, timeoutRef>>
       ELSE UNCHANGED <<status, closes, lastDelay, attempts,
                        reconnectAttemptsRef, timers, timeoutRef>>
    /\ UNCHANGED <<isMounted, wsRef, opens, lastMessage>>
    /\ UNCHANGED <<store, detector, baseline>>
    /\ UNCHANGED <<history, compare, server>>

\* the callback handed to window.setTimeout
TimerFire(t) ==
    /\ t \in timers
    /\ timers' = timers \ {t}
    /\ IF isMounted
       THEN /\ status' = "CONNECTING"
            /\ connect
       ELSE UNCHANGED <<status, sockets, wsRef>>
    /\ UNCHANGED <<attempts, reconnectAttemptsRef, isMounted, timeoutRef,
                   closes, opens, lastDelay, lastMessage>>
    /\ UNCHANGED <<store, detector, baseline>>
    /\ UNCHANGED <<history, compare, server>>

\* WebSocket.close(): a socket that is connecting or open starts closing
CloseCalled(readyState) ==
    IF readyState \in {"CONNECTING", "OPEN"} THEN "CLOSING" ELSE readyState

\* slip: the cleanup closes the socket but leaves the timeout pending
Unmount_KeepsTimer ==
    /\ isMounted
    /\ isMounted' = FALSE
    /\ timers' = timers
    /\ sockets' = IF wsRef # 0
                  THEN [sockets EXCEPT ![wsRef] = CloseCalled(sockets[wsRef])]
                  ELSE sockets
    /\ UNCHANGED <<status, attempts, reconnectAttemptsRef, wsRef, timeoutRef,
                   closes, opens, lastDelay, lastMessage>>
    /\ UNCHANGED <<store, detector, baseline>>
    /\ UNCHANGED <<history, compare, server>>

\* the effect's cleanup
Unmount ==
    /\ isMounted
    /\ isMounted' = FALSE
    /\ timers' = IF timeoutRef # 0 THEN timers \ {timeoutRef} ELSE timers
    /\ sockets' = IF wsRef # 0
                  THEN [sockets EXCEPT ![wsRef] = CloseCalled(sockets[wsRef])]
                  ELSE sockets
    /\ UNCHANGED <<status, attempts, reconnectAttemptsRef, wsRef, timeoutRef,
                   closes, opens, lastDelay, lastMessage>>
    /\ UNCHANGED <<store, detector, baseline>>
    /\ UNCHANGED <<history, compare, server>>

SocketNext ==
    \/ \E i \in DOMAIN sockets : SocketOpen(i)
    \/ \E i \in DOMAIN sockets : \E payload \in SocketPayloads : SocketMessage(i, payload)
    \/ \E i \in DOMAIN sockets : SocketError(i)
    \/ \E i \in DOMAIN sockets : SocketClose(i)
    \/ \E t \in timers : TimerFire(t)
    \/ Unmount

SpecSocket == Init /\ [][SocketNext]_vars

\* a timeout that is pending and not cleared fires; an event loop runs it
SpecSocketFair == SpecSocket /\ WF_vars(\E t \in timers : TimerFire(t))

\* ---------------------------------------------------------------------------
\* Claims about the adapter
\* ---------------------------------------------------------------------------

\* a close event handled while the hook is mounted
CloseStep == isMounted /\ closes' = closes + 1

\* an open event handled while the hook is mounted
OpenStep == opens' = opens + 1

Min(a, b) == IF a < b THEN a ELSE b

\* C13 as stated: at the N-th consecutive close, for every N >= 1, the counter
\* is N and the delay computed is min(1000 * 2^(N-1), 16000).
C13_BackoffEveryN ==
    [][CloseStep =>
         /\ reconnectAttemptsRef' = closes'
         /\ attempts' = closes'
         /\ lastDelay' = Min(1000 * Pow2(closes' - 1), 16000)]_vars

\* C13, amended: at the N-th consecutive close with N up to the ceiling of 5
\* the counter is N and a retry is scheduled with delay 1000 * 2^(N-1); at any
\* further close the counter stays 5 and nothing is scheduled.
C13_BackoffUpToCeiling ==
    [][CloseStep =>
         IF closes' <= 5
         THEN /\ reconnectAttemptsRef' = closes'
              /\ attempts' = closes'
              /\ lastDelay' = 1000 * Pow2(closes' - 1)
              /\ timers' = {timeoutRef'}
              /\ timeoutRef' # timeoutRef
         ELSE /\ reconnectAttemptsRef' = 5
              /\ attempts' = 5
              /\ lastDelay' = 0
              /\ timers' = {}
              /\ timeoutRef' = timeoutRef]_vars

C13_Witness ==
    /\ isMounted
    /\ closes = 5
    /\ reconnectAttemptsRef = 5
    /\ lastDelay = 16000
    /\ timers # {}

\* C14: an open sets the status to CONNECTED and both counters to 0, and the
\* first close after an open schedules a retry with the delay 1000.
C14_OpenResetsCounter ==
    [][/\ OpenStep =>
            /\ status' = "CONNECTED"
            /\ attempts' = 0
            /\ reconnectAttemptsRef' = 0
       /\ (CloseStep /\ opens >= 1 /\ closes = 0) =>
            /\ lastDelay' = 1000
            /\ attempts' = 1
            /\ timers' # {}]_vars

\* the second socket opened after the first failed, then closed
C14_Witness ==
    /\ Len(sockets) = 3
    /\ opens = 1
    /\ closes = 1
    /\ lastDelay = 1000
    /\ attempts = 1

StatusTransitions ==
    { <<"CONNECTING", "CONNECTED">>, <<"CONNECTED", "DISCONNECTED">>,
      <<"DISCONNECTED", "CONNECTING">>, <<"CONNECTING", "ERROR">> }

\* C15: every change of the status is one of the four listed transitions.
C15_OnlyFourTransitions ==
    [][status' # status => <<status, status'>> \in StatusTransitions]_vars

\* C16: a close while mounted sets the status to DISCONNECTED and, below the
\* ceiling, leaves a retry pending; a pending retry leads to a new connection
\* with status CONNECTING unless the hook is unmounted first.
C16_LossLeadsToRetry ==
    /\ [][CloseStep =>
            /\ status' = "DISCONNECTED"
            /\ reconnectAttemptsRef < MAX_RECONNECT => timers' # {}]_vars
    /\ \A n \in 1..(MAX_RECONNECT + 1) * (MaxOpens + 1) :
         (isMounted /\ status = "DISCONNECTED" /\ timers # {} /\ Len(sockets) = n)
            ~> \/ ~isMounted
               \/ /\ status = "CONNECTING"
                  /\ Len(sockets) = n + 1
                  /\ sockets[n + 1] = "CONNECTING"

\* the retry after a failed handshake has started the second connection
C16_Witness ==
    /\ isMounted
    /\ opens = 0
    /\ Len(sockets) = 2
    /\ sockets[1] = "CLOSED"
    /\ sockets[2] = "CONNECTING"
    /\ status = "CONNECTING"

UnmountStep == isMounted /\ ~isMounted'

\* C17: the cleanup leaves no timeout pending and no socket connecting or
\* open; once unmounted, no step changes the status, the counters, the store
\* or the detector's calls, and no socket is created.
C17_TeardownIsFinal ==
    [][/\ UnmountStep =>
            /\ timers' = {}
            /\ \A i \in DOMAIN sockets' : sockets'[i] \notin {"CONNECTING", "OPEN"}
       /\ ~isMounted =>
            /\ ~isMounted'
            /\ UNCHANGED <<status, attempts, reconnectAttemptsRef>>
            /\ UNCHANGED <<store, detector>>
            /\ Len(sockets') = Len(sockets)
            /\ timers' \subseteq timers]_vars

\* the close event of the socket the cleanup closed has been handled
C17_Witness ==
    /\ ~isMounted
    /\ status = "CONNECTED"
    /\ sockets[wsRef] = "CLOSED"
    /\ Len(ingested) >= 1

\* C18: a message whose text does not parse, or parses to an object without
\* the fields of a reading, leaves the store and the status as they were.
C18_MalformedIsDropped ==
    [][\A i \in DOMAIN sockets : \A payload \in SocketPayloads :
         (payload.kind # "reading" /\ SocketMessage(i, payload))
            => UNCHANGED <<store, status>>]_vars

\* ---------------------------------------------------------------------------
\* The baseline engine: calculateBaselines
\* ---------------------------------------------------------------------------

MaxCorpus == 3

\* the readings of a historical corpus: two zones, whole-kW values; a zone's
\* readings may carry different names, and a name may be the empty string
CorpusReadings ==
    { [zoneId |-> z, zoneName |-> n, timestamp |-> 1, energyKw |-> e] :
        z \in {"a", "b"}, n \in {"Alpha", "Beta", ""}, e \in {10, 20, 25} }

RECURSIVE SeqsUpTo(_, _)
SeqsUpTo(S, n) ==
    IF n = 0 THEN {<<>>}
    ELSE LET shorter == SeqsUpTo(S, n - 1)
         IN  shorter \cup {Append(q, x) : q \in shorter, x \in S}

\* for (const reading of historicalData) ... zoneData.get(zoneId).push(energyKw)
RECURSIVE GroupByZone(_)
GroupByZone(historicalData) ==
    IF historicalData = <<>> THEN EmptyMap
    ELSE LET n == Len(historicalData)
             zoneData == GroupByZone(SubSeq(historicalData, 1, n - 1))
             reading == historicalData[n]
             soFar == IF reading.zoneId \in DOMAIN zoneData
                      THEN zoneData[reading.zoneId] ELSE <<>>
         IN  MapSet(zoneData, reading.zoneId, Append(soFar, reading.energyKw))

\* energyValues.reduce((acc, val) => acc + val, 0)
RECURSIVE ReduceSum(_)
ReduceSum(energyValues) ==
    IF energyValues = <<>> THEN 0
    ELSE ReduceSum(SubSeq(energyValues, 1, Len(energyValues) - 1))
            + energyValues[Len(energyValues)]

\* Math.min(...energyValues) of a non-empty array
RECURSIVE MathMin(_)
MathMin(energyValues) ==
    IF Len(energyValues) = 1 THEN energyValues[1]
    ELSE LET m == MathMin(SubSeq(energyValues, 1, Len(energyValues) - 1))
             v == energyValues[Len(energyValues)]
         IN  IF v < m THEN v ELSE m

\* Math.max(...energyValues) of a non-empty array
RECURSIVE MathMax(_)
MathMax(energyValues) ==
    IF Len(energyValues) = 1 THEN energyValues[1]
    ELSE LET m == MathMax(SubSeq(energyValues, 1, Len(energyValues) - 1))
             v == energyValues[Len(energyValues)]
         IN  IF v > m THEN v ELSE m

RECURSIVE GCD(_, _)
GCD(a, b) == IF b = 0 THEN a ELSE GCD(b, a % b)

\* sum / energyValues.length: the quotient of two whole numbers, kept exact as
\* a fraction in lowest terms (equal quotients give the same double)
Quotient(sum, length) ==
    LET g == GCD(sum, length)
    IN  [num |-> sum \div g, den |-> length \div g]

\* historicalData.find(r => r.zoneId === zoneId)?.zoneName || zoneId
FirstZoneName(historicalData, zoneId) ==
    LET found == SelectSeq(historicalData, LAMBDA r : r.zoneId = zoneId)
    IN  IF found = <<>> \/ found[1].zoneName = "" THEN zoneId
        ELSE found[1].zoneName

\* slip: the first value of a zone is taken for its minimum
calculateBaselines_MinOfFirst(historicalData) ==
    LET zoneData == GroupByZone(historicalData)
    IN  [ zoneId \in DOMAIN zoneData |->
            LET energyValues == zoneData[zoneId]
            IN  [ zoneId       |-> zoneId,
                  zoneName     |-> FirstZoneName(historicalData, zoneId),
                  avgEnergyKw  |-> Quotient(ReduceSum(energyValues), Len(energyValues)),
                  minEnergyKw  |-> energyValues[1],
                  maxEnergyKw  |-> MathMax(energyValues),
                  dataPoints   |-> Len(energyValues) ] ]

calculateBaselines(historicalData) ==
    LET zoneData == GroupByZone(historicalData)
    IN  [ zoneId \in DOMAIN zoneData |->
            LET energyValues == zoneData[zoneId]
            IN  [ zoneId       |-> zoneId,
                  zoneName     |-> FirstZoneName(historicalData, zoneId),
                  avgEnergyKw  |-> Quotient(ReduceSum(energyValues), Len(energyValues)),
                  minEnergyKw  |-> MathMin(energyValues),
                  maxEnergyKw  |-> MathMax(energyValues),
                  dataPoints   |-> Len(energyValues) ] ]

BaselineInit ==
    /\ StoreInit
    /\ callReading = NoCall
    /\ callPrevious = Undefined
    /\ callResult = Pending
    /\ AdapterInit
    /\ corpus \in SeqsUpTo(CorpusReadings, MaxCorpus)
    /\ baselines = Pending
    /\ HistoryInit
    /\ CompareIdle
    /\ ServerInit

\* one call of calculateBaselines on the corpus
Calculate ==
    /\ baselines = Pending
    /\ baselines' = [kind |-> "map", entries |-> calculateBaselines(corpus)]
    /\ UNCHANGED <<store, detector, adapter, corpus>>
    /\ UNCHANGED <<history, compare, server>>

BaselineNext == Calculate

SpecBaseline == BaselineInit /\ [][BaselineNext]_vars

\* ---------------------------------------------------------------------------
\* Claims about the baseline engine
\* ---------------------------------------------------------------------------

Calculated == baselines.kind = "map"

ZoneIndexes(z) == {i \in 1..Len(corpus) : corpus[i].zoneId = z}

RECURSIVE SumOver(_)
SumOver(I) ==
    IF I = {} THEN 0
    ELSE LET i == CHOOSE j \in I : TRUE
         IN  corpus[i].energyKw + SumOver(I \ {i})

\* C19: the result has exactly one entry per zoneId of the corpus, holding the
\* zone's count, minimum, maximum and arithmetic mean; an empty corpus gives
\* an empty map.
C19_BaselineStatistics ==
    Calculated =>
        /\ DOMAIN baselines.entries = {corpus[i].zoneId : i \in 1..Len(corpus)}
        /\ \A z \in DOMAIN baselines.entries :
             LET b == baselines.entries[z]
                 I == ZoneIndexes(z)
             IN  /\ b.zoneId = z
                 /\ b.dataPoints = Cardinality(I)
                 /\ \E i \in I : corpus[i].energyKw = b.minEnergyKw
                 /\ \A i \in I : b.minEnergyKw <= corpus[i].energyKw
                 /\ \E i \in I : corpus[i].energyKw = b.maxEnergyKw
                 /\ \A i \in I : b.maxEnergyKw >= corpus[i].energyKw
                 /\ b.avgEnergyKw.den > 0
                 /\ b.avgEnergyKw.num * Cardinality(I) = SumOver(I) * b.avgEnergyKw.den
                 /\ Cardinality(I) = 1 =>
                        /\ b.minEnergyKw = b.maxEnergyKw
                        /\ b.avgEnergyKw = [num |-> b.minEnergyKw, den |-> 1]

\* values 20 and 10 of zone a, with a reading of zone b between them
C19_Witness ==
    /\ Calculated
    /\ Len(corpus) = 3
    /\ corpus[1].zoneId = "a" /\ corpus[1].energyKw = 20
    /\ corpus[2].zoneId = "b"
    /\ corpus[3].zoneId = "a" /\ corpus[3].energyKw = 10
    /\ baselines.entries["a"].avgEnergyKw = [num |-> 15, den |-> 1]
    /\ baselines.entries["a"].minEnergyKw = 10
    /\ baselines.entries["a"].maxEnergyKw = 20
    /\ baselines.entries["a"].dataPoints = 2
    /\ baselines.entries["b"].dataPoints = 1

Reordered(p) == [i \in 1..Len(corpus) |-> corpus[p[i]]]

\* C20: the result for every permutation of the corpus equals the result for
\* the corpus, on every field of every zone's baseline.
C20_OrderIndependent ==
    Calculated =>
        \A p \in Permutations(1..Len(corpus)) :
            calculateBaselines(Reordered(p)) = baselines.entries

\* ---------------------------------------------------------------------------
\* The comparison function: calculatePercentageDiff and getComparisonStatus
\* ---------------------------------------------------------------------------

MaxCompare == 111

\* a quotient n / d with d # 0, in lowest terms with a positive denominator.
\* Numbers that are not whole are kept exact this way; the double the code
\* holds is the nearest one.
Frac(n, d) ==
    LET sign == IF d < 0 THEN -1 ELSE 1
        g == GCD(Abs(n), Abs(d))
    IN  [num |-> (sign * n) \div g, den |-> (sign * d) \div g]

Whole(n) == [num |-> n, den |-> 1]

\* if (baseline === 0) return 0; return ((current - baseline) / baseline) * 100
calculatePercentageDiff(current, baselineKw) ==
    IF baselineKw.num = 0 THEN Whole(0)
    ELSE Frac((current.num * baselineKw.den - baselineKw.num * current.den) * 100,
              current.den * baselineKw.num)

\* slip: <= where the code has <
getComparisonStatus_Inclusive(percentage) ==
    IF Abs(percentage.num) <= 10 * percentage.den THEN "normal"
    ELSE IF percentage.num > 0 THEN "above" ELSE "below"

\* if (Math.abs(percentage) < 10) return 'normal';
\* return percentage > 0 ? 'above' : 'below'
getComparisonStatus(percentage) ==
    IF Abs(percentage.num) < 10 * percentage.den THEN "normal"
    ELSE IF percentage.num > 0 THEN "above" ELSE "below"

CompareCurrents == (0 - MaxCompare)..MaxCompare

CompareBaselines == {-100, 0, 20, 100}

CompareInit ==
    /\ StoreInit
    /\ callReading = NoCall
    /\ callPrevious = Undefined
    /\ callResult = Pending
    /\ AdapterInit
    /\ BaselineIdle
    /\ HistoryInit
    /\ ServerInit
    /\ compareArgs \in [kind : {"args"}, current : CompareCurrents,
                        baseline : CompareBaselines]
    /\ compareResult = Pending

\* one comparison: the percentage, then the status of that percentage
Compare ==
    /\ compareResult = Pending
    /\ LET percentage == calculatePercentageDiff(Whole(compareArgs.current),
                                                 Whole(compareArgs.baseline))
       IN  compareResult' = [kind |-> "result",
                             percentage |-> percentage,
                             status |-> getComparisonStatus(percentage)]
    /\ UNCHANGED <<store, detector, adapter, baseline, history, server, compareArgs>>

CompareNext == Compare

SpecCompare == CompareInit /\ [][CompareNext]_vars

Compared == compareResult.kind = "result"

ComparedWith(current, baselineKw) ==
    Compared /\ compareArgs.current = current /\ compareArgs.baseline = baselineKw

HistoryZones == {"warehouse", "quality-control"}

\* the live readings the comparison is shown for
HistoryReadings ==
    { [zoneId |-> z, zoneName |-> ZoneNameOf(z), timestamp |-> 1, energyKw |-> e] :
        z \in HistoryZones, e \in {27, 33, 40} }

CorpusReading(z, e) ==
    [zoneId |-> z, zoneName |-> ZoneNameOf(z), timestamp |-> 1, energyKw |-> e]

\* what the request for /data/historical-data.json can come to: fetch rejects,
\* the response is not OK, its body is not JSON, or its body is JSON: an
\* empty array, a value that is not an array, or an array of readings
LoadOutcomes ==
    {"rejects", "notOk", "unparsable", "empty", "notArray", "warehouseOnly", "twoZones"}

LoadFailures == {"rejects", "notOk", "unparsable"}

ResponseBody(outcome) ==
    IF outcome = "warehouseOnly"
    THEN <<CorpusReading("warehouse", 20), CorpusReading("warehouse", 40)>>
    ELSE IF outcome = "twoZones"
    THEN <<CorpusReading("warehouse", 20), CorpusReading("quality-control", 0),
           CorpusReading("warehouse", 40)>>
    ELSE <<>>

\* loadHistoricalData: every failure is caught and gives []; a body that
\* parses is returned as it is
loadHistoricalData(outcome) ==
    IF outcome \in LoadFailures THEN [kind |-> "array", data |-> <<>>]
    ELSE IF outcome = "notArray" THEN [kind |-> "object", data |-> <<>>]
    ELSE [kind |-> "array", data |-> ResponseBody(outcome)]

ErrorMessage(text) == [kind |-> "message", text |-> text]

\* slip: the empty result is not told apart, so baselines of no reading are
\* stored and the error is cleared
Settle_NoEmptyCheck(outcome) ==
    /\ load = "inflight"
    /\ load' = outcome
    /\ LET historicalData == loadHistoricalData(outcome)
       IN  IF ~historyMounted
           THEN UNCHANGED <<baselinesState, error, loading>>
           ELSE IF historicalData.kind = "object"
           THEN /\ error' = ErrorMessage("Failed to load historical data")
                /\ loading' = FALSE
                /\ UNCHANGED baselinesState
           ELSE /\ baselinesState' = calculateBaselines(historicalData.data)
                /\ error' = Null
                /\ loading' = FALSE
    /\ UNCHANGED <<timeRange, historyMounted>>
    /\ UNCHANGED <<store, detector, adapter, baseline, compare, server>>

\* slip: the result is stored whether or not the hook is still mounted
Settle_NoMountedCheck(outcome) ==
    /\ load = "inflight"
    /\ load' = outcome
    /\ LET historicalData == loadHistoricalData(outcome)
       IN  IF historicalData.kind = "object"
           THEN /\ error' = ErrorMessage("Failed to load historical data")
                /\ loading' = FALSE
                /\ UNCHANGED baselinesState
           ELSE IF historicalData.data = <<>>
           THEN /\ error' = ErrorMessage("No historical data available")
                /\ loading' = FALSE
                /\ UNCHANGED baselinesState
           ELSE /\ baselinesState' = calculateBaselines(historicalData.data)
                /\ error' = Null
                /\ loading' = FALSE
    /\ UNCHANGED <<timeRange, historyMounted>>
    /\ UNCHANGED <<store, detector, adapter, baseline, compare, server>>

\* loadData after its await: the promise of loadHistoricalData has settled.
\* A value that is not an array makes calculateBaselines throw (for...of),
\* which the catch turns into the error message.
Settle(outcome) ==
    /\ load = "inflight"
    /\ load' = outcome
    /\ LET historicalData == loadHistoricalData(outcome)
       IN  IF ~historyMounted
           THEN UNCHANGED <<baselinesState, error, loading>>
           ELSE IF historicalData.kind = "object"
           THEN /\ error' = ErrorMessage("Failed to load historical data")
                /\ loading' = FALSE
                /\ UNCHANGED baselinesState
           ELSE IF historicalData.data = <<>>
           THEN /\ error' = ErrorMessage("No historical data available")
                /\ loading' = FALSE
                /\ UNCHANGED baselinesState
           ELSE /\ baselinesState' = calculateBaselines(historicalData.data)
                /\ error' = Null
                /\ loading' = FALSE
    /\ UNCHANGED <<timeRange, historyMounted>>
    /\ UNCHANGED <<store, detector, adapter, baseline, compare, server>>

\* the effect's cleanup of useHistoricalData
HistoryUnmount ==
    /\ historyMounted
    /\ historyMounted' = FALSE
    /\ UNCHANGED <<timeRange, loading, error, baselinesState, load>>
    /\ UNCHANGED <<store, detector, adapter, baseline, compare, server>>

TimeRanges == {"hour", "today", "week"}

\* onTimeRangeChange: a click on one of the three buttons
SetTimeRange(range) ==
    /\ historyMounted
    /\ timeRange # range
    /\ timeRange' = range
    /\ UNCHANGED <<loading, error, baselinesState, historyMounted, load>>
    /\ UNCHANGED <<store, detector, adapter, baseline, compare, server>>

\* a live reading arrives while the comparison is on the page
HistoryIngest ==
    /\ Len(ingested) < MaxIngest
    /\ \E reading \in HistoryReadings : handleMessage(reading)
    /\ UNCHANGED <<adapter, baseline, history, compare, server>>

HistoryNext ==
    \/ \E outcome \in LoadOutcomes : Settle(outcome)
    \/ HistoryUnmount
    \/ \E range \in TimeRanges : SetTimeRange(range)
    \/ HistoryIngest

SpecHistory == Init /\ [][HistoryNext]_vars

\* the promise of loadHistoricalData settles: fetch resolves or rejects
SpecHistoryFair ==
    SpecHistory /\ WF_vars(\E outcome \in LoadOutcomes : Settle(outcome))

\* the keys of latestReadings in the order a Map iterates them: the order in
\* which the zones first arrived
RECURSIVE KeysInOrder(_)
KeysInOrder(arrived) ==
    IF arrived = <<>> THEN <<>>
    ELSE LET n == Len(arrived)
             keys == KeysInOrder(SubSeq(arrived, 1, n - 1))
             zoneId == arrived[n].zoneId
         IN  IF \E i \in 1..Len(keys) : keys[i] = zoneId THEN keys
             ELSE Append(keys, zoneId)

\* filterBaselineByTimeRange: the average times 1.05, 1.02 or as it is
filterBaselineByTimeRange(zoneBaseline, range) ==
    LET avg == zoneBaseline.avgEnergyKw
    IN  IF range = "hour"
        THEN [zoneBaseline EXCEPT !.avgEnergyKw = Frac(avg.num * 105, avg.den * 100)]
        ELSE IF range = "today"
        THEN [zoneBaseline EXCEPT !.avgEnergyKw = Frac(avg.num * 102, avg.den * 100)]
        ELSE zoneBaseline

\* slip: the entry is computed from the baseline's minimum
ComparisonEntry_FromMinimum(zoneId) ==
    LET reading == latestReadings[zoneId]
        percentage == calculatePercentageDiff(Whole(reading.energyKw),
                                              Whole(baselinesState[zoneId].minEnergyKw))
    IN  [ zoneId     |-> zoneId,
          zoneName   |-> reading.zoneName,
          current    |-> reading.energyKw,
          baseline   |-> Whole(baselinesState[zoneId].minEnergyKw),
          percentage |-> percentage,
          status     |-> getComparisonStatus(percentage) ]

\* the body of the loop for a zone that has a baseline
ComparisonEntry(zoneId) ==
    LET reading == latestReadings[zoneId]
        filteredBaseline == filterBaselineByTimeRange(baselinesState[zoneId], timeRange)
        percentage == calculatePercentageDiff(Whole(reading.energyKw),
                                              filteredBaseline.avgEnergyKw)
    IN  [ zoneId     |-> zoneId,
          zoneName   |-> reading.zoneName,
          current    |-> reading.energyKw,
          baseline   |-> filteredBaseline.avgEnergyKw,
          percentage |-> percentage,
          status     |-> getComparisonStatus(percentage) ]

\* for (const [zoneId, reading] of latestReadings.entries()):
\* if (!baseline) continue; else results.push(...)
RECURSIVE ComparisonsOf(_)
ComparisonsOf(keys) ==
    IF keys = <<>> THEN <<>>
    ELSE LET n == Len(keys)
             results == ComparisonsOf(SubSeq(keys, 1, n - 1))
         IN  IF keys[n] \notin DOMAIN baselinesState THEN results
             ELSE Append(results, ComparisonEntry(keys[n]))

\* the useMemo value of the current render
comparisons == ComparisonsOf(KeysInOrder(ingested))

\* what HistoricalComparison renders
view ==
    IF loading THEN "loading"
    ELSE IF error.kind # "null" THEN "error"
    ELSE IF comparisons = <<>> THEN "no-data"
    ELSE "grid"

\* ---------------------------------------------------------------------------
\* Claims about the historical comparison
\* ---------------------------------------------------------------------------

SettleStep == load = "inflight" /\ load' # "inflight"

\* C22: a load that fails settles, while mounted, with loading false, an error
\* message and no baselines, and leaves the store alone; whenever an error
\* message is set there is no baseline and no comparison entry, and the grid
\* is not shown.
C22_LoadFailureIsAnErrorState ==
    /\ [][(SettleStep /\ historyMounted /\ load' \in LoadFailures) =>
            /\ loading' = FALSE
            /\ error'.kind = "message"
            /\ baselinesState' = EmptyMap
            /\ UNCHANGED <<store, detector>>]_vars
    /\ [](error.kind # "null" =>
            /\ baselinesState = EmptyMap
            /\ comparisons = <<>>
            /\ view # "grid")

\* the fetch was rejected while live readings were already in the store
C22_Witness ==
    /\ load = "rejects"
    /\ historyMounted
    /\ ~loading
    /\ error = ErrorMessage("No historical data available")
    /\ DOMAIN latestReadings = HistoryZones
    /\ view = "error"

RangeFactor == IF timeRange = "hour" THEN 105 ELSE IF timeRange = "today" THEN 102 ELSE 100

C30_LoadAfterUnmount ==
    /\ [][~historyMounted => UNCHANGED <<baselinesState, loading, error>>]_vars
    /\ [](historyMounted => (loading <=> load = "inflight"))
    /\ [](baselinesState # EmptyMap => error.kind = "null")
    /\ (historyMounted /\ loading) ~> (~loading \/ ~historyMounted)

\* the corpus arrived after the hook was unmounted
C30_Witness ==
    /\ ~historyMounted
    /\ load = "twoZones"
    /\ loading
    /\ baselinesState = EmptyMap
    /\ error.kind = "null"

\* ---------------------------------------------------------------------------
\* The mock server: the broadcast loop
\* ---------------------------------------------------------------------------

MaxClients == 2
MaxSent == 4

ZONES == <<"assembly-1", "paint-shop", "stamping-press", "quality-control", "warehouse">>

\* wss.clients.size
ClientsSize == clients.open + clients.closing

\* wss.on("connection"): a socket joins wss.clients with readyState OPEN
Connection ==
    /\ ClientsSize < MaxClients
    /\ clients' = [clients EXCEPT !.open = @ + 1]
    /\ UNCHANGED <<currentZoneIndex, sent>>
    /\ UNCHANGED <<store, detector, adapter, baseline, history, compare>>

\* a closing handshake starts: the socket stays in wss.clients with
\* readyState CLOSING until its close event
ClientClosing ==
    /\ clients.open > 0
    /\ clients' = [open |-> clients.open - 1, closing |-> clients.closing + 1]
    /\ UNCHANGED <<currentZoneIndex, sent>>
    /\ UNCHANGED <<store, detector, adapter, baseline, history, compare>>

\* ws.on("close"): the socket leaves wss.clients
ClientClosed ==
    /\ clients.closing > 0
    /\ clients' = [clients EXCEPT !.closing = @ - 1]
    /\ UNCHANGED <<currentZoneIndex, sent>>
    /\ UNCHANGED <<store, detector, adapter, baseline, history, compare>>

\* broadcast: the message goes to every client whose readyState is OPEN
broadcast(zoneIndex) ==
    IF clients.open > 0
    THEN Append(sent, ZONES[zoneIndex + 1])
    ELSE sent

\* the setInterval callback
Tick ==
    /\ Len(sent) < MaxSent
    /\ IF ClientsSize = 0
       THEN UNCHANGED <<currentZoneIndex, sent>>
       ELSE /\ sent' = broadcast(currentZoneIndex)
            /\ currentZoneIndex' = (currentZoneIndex + 1) % Len(ZONES)
    /\ UNCHANGED clients
    /\ UNCHANGED <<store, detector, adapter, baseline, history, compare>>

ServerNext ==
    \/ Connection
    \/ ClientClosing
    \/ ClientClosed
    \/ Tick

SpecServer == Init /\ [][ServerNext]_vars

\* C24: every tick that advances the index has sent one reading of the zone
\* the index named, to at least one client, and advances it by 1 modulo 5; a
\* tick that sends nothing leaves the index unchanged; the index is in 0..4.
C24_StrictRoundRobin ==
    /\ [][/\ currentZoneIndex' # currentZoneIndex =>
               /\ currentZoneIndex' = (currentZoneIndex + 1) % 5
               /\ Len(sent') = Len(sent) + 1
               /\ sent'[Len(sent')] = ZONES[currentZoneIndex + 1]
          /\ sent' # sent => currentZoneIndex' # currentZoneIndex]_vars
    /\ [](currentZoneIndex \in 0..4)

\* ---------------------------------------------------------------------------
\* Further claims about the adapter
\* ---------------------------------------------------------------------------

\* the last close found the counter at the ceiling and scheduled nothing
Exhausted == isMounted /\ closes >= 1 /\ lastDelay = 0

\* C25: the counters are always in 0..5; a retry is only ever scheduled at one
\* of the first 5 closes since the last open; a close that finds the counter
\* at 5 schedules nothing, and from then on the status stays DISCONNECTED, the
\* counters stay 5 and no socket or timer is created.
C25_RetryCeiling ==
    /\ [](reconnectAttemptsRef \in 0..5 /\ attempts \in 0..5)
    /\ [][/\ timeoutRef' # timeoutRef => (CloseStep /\ closes' <= 5)
          /\ (CloseStep /\ reconnectAttemptsRef = 5) =>
                /\ timers' = {}
                /\ timeoutRef' = timeoutRef
                /\ status' = "DISCONNECTED"
                /\ reconnectAttemptsRef' = 5
                /\ Exhausted'
          /\ Exhausted =>
                /\ status' = "DISCONNECTED"
                /\ reconnectAttemptsRef' = 5
                /\ attempts' = 5
                /\ sockets' = sockets
                /\ timers' = {}
                /\ timeoutRef' = timeoutRef]_vars

\* retries ran out after a connection that had opened
C25_Witness ==
    /\ Exhausted
    /\ opens = 1
    /\ closes = 6
    /\ status = "DISCONNECTED"
    /\ attempts = 5
    /\ timers = {}
    /\ \A i \in DOMAIN sockets : sockets[i] = "CLOSED"

Live == {i \in DOMAIN sockets : sockets[i] # "CLOSED"}

\* C27: at most one timer is pending and at most one socket is not closed,
\* never both; every socket but the last is closed; a socket is created only
\* by the pending timer firing while every socket is closed.
C27_OneTimerOneSocket ==
    /\ [](/\ Cardinality(timers) <= 1
          /\ Cardinality(Live) <= 1
          /\ timers # {} => Live = {}
          /\ Live \subseteq {Len(sockets)}
          /\ wsRef = Len(sockets))
    /\ [][sockets' # sockets /\ Len(sockets') # Len(sockets) =>
            /\ Live = {}
            /\ timers = {timeoutRef}
            /\ timers' = {}
            /\ sockets' = Append(sockets, "CONNECTING")]_vars

\* the third socket is open, its two predecessors failed and are closed
C27_Witness ==
    /\ Len(sockets) = 3
    /\ sockets[3] = "OPEN"
    /\ Live = {3}
    /\ timers = {}
    /\ timeoutRef = 2

\* C28: while the status is CONNECTED both counters are 0, and the exposed
\* attempts value always equals the counter the delay is computed from.
C28_ConnectedMeansZero ==
    /\ status = "CONNECTED" => (reconnectAttemptsRef = 0 /\ attempts = 0)
    /\ attempts = reconnectAttemptsRef

\* connected at the second attempt
C28_Witness ==
    /\ status = "CONNECTED"
    /\ Len(sockets) = 2
    /\ timeoutRef = 1
    /\ attempts = 0
    /\ reconnectAttemptsRef = 0

\* ---------------------------------------------------------------------------
\* Further claims about the store and the detector
\* ---------------------------------------------------------------------------

IngestStep == Len(ingested') = Len(ingested) + 1

\* the entry of key k is the same in both maps, or in neither
SameEntry(m1, m2, k) ==
    /\ k \in DOMAIN m1 <=> k \in DOMAIN m2
    /\ k \in DOMAIN m1 => m1[k] = m2[k]

ZoneIds == {ingested'[i].zoneId : i \in 1..Len(ingested')}

\* C26: a reading of zone A leaves the window, the latest reading and the
\* previous-reading entry of every other zone as they were, and the
\* detector's result for it is that of the reading and the last earlier
\* reading of zone A alone.
C26_ZonesAreIndependent ==
    [][IngestStep =>
         LET reading == ingested'[Len(ingested')]
             own == SelectSeq(ingested, LAMBDA r : r.zoneId = reading.zoneId)
             ownPrevious == IF own = <<>> THEN Undefined ELSE own[Len(own)]
         IN  /\ \A B \in ZoneIds \ {reading.zoneId} :
                  /\ SameEntry(readings', readings, B)
                  /\ SameEntry(latestReadings', latestReadings, B)
                  /\ SameEntry(previousReadingsRef', previousReadingsRef, B)
             /\ callResult' = detectAnomaly(reading, ownPrevious)]_vars

\* warehouse, then loading-dock, then a warehouse reading that the pattern
\* rule reports against the first
C26_Witness ==
    /\ Len(ingested) = 3
    /\ ingested[1].zoneId = "warehouse" /\ ingested[1].energyKw = 30
    /\ ingested[2].zoneId = "loading-dock" /\ ingested[2].energyKw = 70
    /\ ingested[3].zoneId = "warehouse" /\ ingested[3].energyKw = 40
    /\ callResult # Null
    /\ callResult.threshold = 30
    /\ Len(readings["loading-dock"]) = 1
    /\ latestReadings["loading-dock"] = ingested[2]

\* C29: every anomaly the detector ever returned for the log is a spike with
\* value > threshold or a drop with value < threshold.
C29_SpikeAboveDropBelow ==
    \A i \in 1..Len(produced) :
        LET a == produced[i]
        IN  /\ a.type \in {"spike", "drop"}
            /\ a.type = "spike" => a.value > a.threshold
            /\ a.type = "drop" => a.value < a.threshold

====
